---- MODULE Spec2Model ----
(***************************************************************************)
(* botkit-storage-mongo (src/src/index.js): the zone stores returned by    *)
(* getStorage, the dot-path flattener toDot used by save, and the history  *)
(* methods addToHistory / getHistoryForUser, over a model of the backing   *)
(* collection (monk: findOne, find, insert, findOneAndUpdate,              *)
(* findOneAndDelete).                                                      *)
(*                                                                         *)
(* JavaScript values are tagged records [kind, val].  An object is the     *)
(* sequence of its own entries [k, v] in insertion order (the order of     *)
(* Object.keys); a property name is the sequence of its characters, so     *)
(* that pre + div + key is real concatenation and a dotted name can be     *)
(* split again by the backing store.                                       *)
(***************************************************************************)
EXTENDS Integers, Sequences, FiniteSets, TLC

VARIABLES
    table,      \* the documents of the zone's collection, in natural order
    calls,      \* the concurrent callers' save calls: idle, pending at the backing store, or done
    last,       \* the backing-store call that completed last, with what its callback got
    now,        \* the clock read by Date.now()
    arg,        \* the argument of the toDot call under test
    ret         \* what that call returned or threw

vars == <<table, calls, last, now, arg, ret>>

----------------------------------------------------------------------------
(* JavaScript values *)

Num(n) == [kind |-> "number", val |-> n]
Str(s) == [kind |-> "string", val |-> s]
Arr(s) == [kind |-> "array", val |-> s]
Obj(es) == [kind |-> "object", val |-> es]
NullV == [kind |-> "null", val |-> 0]
Undefined == [kind |-> "undefined", val |-> 0]
\* an object that is not a plain object (a Date): no own enumerable property
DateV == [kind |-> "date", val |-> 0]

\* typeof v
TypeOf(v) ==
    IF v.kind \in {"number", "string", "undefined"} THEN v.kind ELSE "object"

\* _.isPlainObject(v)
IsPlainObject(v) == v.kind = "object"

\* Object.keys(v) of a non-null object: an array's keys are its indices
ObjectKeys(v) ==
    CASE v.kind = "object" -> [i \in 1..Len(v.val) |-> v.val[i].k]
      [] v.kind = "array" -> [i \in 1..Len(v.val) |-> <<ToString(i - 1)>>]
      [] OTHER -> <<>>

\* the position of own property key in obj, 0 when it has none
IndexOf(obj, key) ==
    IF \E i \in 1..Len(obj.val) : obj.val[i].k = key
    THEN CHOOSE i \in 1..Len(obj.val) : obj.val[i].k = key
    ELSE 0

Has(obj, key) == obj.kind = "object" /\ IndexOf(obj, key) # 0

\* obj[key]
Member(obj, key) ==
    CASE obj.kind = "object" ->
            IF IndexOf(obj, key) # 0 THEN obj.val[IndexOf(obj, key)].v ELSE Undefined
      [] obj.kind = "array" ->
            IF \E i \in 1..Len(obj.val) : <<ToString(i - 1)>> = key
            THEN obj.val[CHOOSE i \in 1..Len(obj.val) : <<ToString(i - 1)>> = key]
            ELSE Undefined
      [] OTHER -> Undefined

\* obj[key] = v: an own property keeps its place, a new one goes last
Assign(obj, key, v) ==
    IF IndexOf(obj, key) # 0
    THEN Obj([obj.val EXCEPT ![IndexOf(obj, key)] = [k |-> key, v |-> v]])
    ELSE Obj(Append(obj.val, [k |-> key, v |-> v]))

RECURSIVE AssignFrom(_, _, _)
AssignFrom(target, source, i) ==
    IF i > Len(source.val) THEN target
    ELSE AssignFrom(Assign(target, source.val[i].k, source.val[i].v), source, i + 1)

\* Object.assign(target, source)
ObjectAssign(target, source) == AssignFrom(target, source, 1)

----------------------------------------------------------------------------
(* toDot *)

Returned(v) == [status |-> "returned", error |-> "", value |-> v]
Threw(e) == [status |-> "threw", error |-> e, value |-> Undefined]
NotCalled == [status |-> "none", error |-> "", value |-> Undefined]

InvalidArgument == "Error: toDot requires a valid object"
KeysOfNull == "TypeError: Cannot convert undefined or null to object"

\* a prefix that forgets the separator
PrefixWithoutDiv(pre, div) ==
    IF pre.kind \notin {"null", "undefined"} THEN pre.val ELSE <<>>

\* pre != null ? pre + div : ''
Prefix(pre, div) ==
    IF pre.kind \notin {"null", "undefined"} THEN pre.val \o div ELSE <<>>

RECURSIVE toDot(_, _, _)
RECURSIVE ToDotKeys(_, _, _, _, _)

\* the forEach of toDot over Object.keys(obj), from the i-th key on
ToDotKeys(obj, div, pre, i, iteration) ==
    IF i > Len(ObjectKeys(obj)) THEN iteration
    ELSE LET key == ObjectKeys(obj)[i]
             val == Member(obj, key)
         IN  ToDotKeys(obj, div, pre, i + 1,
                 IF IsPlainObject(val)
                 THEN ObjectAssign(iteration, toDot(val, div, Str(pre \o key)).value)
                 ELSE Assign(iteration, pre \o key, val))

toDot(obj, div, pre) ==
    IF TypeOf(obj) # "object" THEN Threw(InvalidArgument)
    ELSE IF obj.kind = "null" THEN Threw(KeysOfNull)
    ELSE Returned(ToDotKeys(obj, div, Prefix(pre, div), 1, Obj(<<>>)))

\* the default separator
Dot == <<".">>

\* property names
KA == <<"a">>
KB == <<"b">>
KAB == <<"a", ".", "b">>
KID == <<"i", "d">>
KUserId == <<"u", "s", "e", "r", "I", "d">>
KMessage == <<"m", "e", "s", "s", "a", "g", "e">>
KDate == <<"d", "a", "t", "e">>

----------------------------------------------------------------------------
(* the backing collection: what monk's calls do to the documents of a zone *)

RECURSIVE SplitFrom(_, _, _)
\* the segments of a dotted path, cur being the segment read so far
SplitFrom(s, i, cur) ==
    IF i > Len(s) THEN <<cur>>
    ELSE IF <<s[i]>> = <<".">> THEN <<cur>> \o SplitFrom(s, i + 1, <<>>)
    ELSE SplitFrom(s, i + 1, Append(cur, s[i]))

\* path.split('.')
SplitDots(s) == SplitFrom(s, 1, <<>>)

IsPrefix(p, q) == Len(p) <= Len(q) /\ SubSeq(q, 1, Len(p)) = p

\* an undefined value is stored as null
Stored(v) == IF v.kind = "undefined" THEN NullV ELSE v

\* the filter {field: v}: equality, and null matches a document without the field too
Matches(doc, field, v) ==
    IF v.kind \in {"null", "undefined"}
    THEN Member(doc, field).kind \in {"null", "undefined"}
    ELSE Member(doc, field) = v

RECURSIVE SetPath(_, _, _)
\* $set of one path: it creates the mappings on the way that are missing, and is
\* refused when the way runs through a value that is not a mapping
SetPath(doc, segs, v) ==
    IF Len(segs) = 1 THEN [ok |-> TRUE, doc |-> Assign(doc, segs[1], v)]
    ELSE LET child == Member(doc, segs[1])
             below == SetPath(IF child.kind = "object" THEN child ELSE Obj(<<>>),
                              Tail(segs), v)
         IN  IF child.kind \in {"object", "undefined"}
             THEN [ok |-> below.ok,
                   doc |-> IF below.ok THEN Assign(doc, segs[1], below.doc) ELSE doc]
             ELSE [ok |-> FALSE, doc |-> doc]

RECURSIVE SetFrom(_, _, _)
SetFrom(doc, set, i) ==
    IF i > Len(set.val) THEN [ok |-> TRUE, doc |-> doc]
    ELSE LET one == SetPath(doc, SplitDots(set.val[i].k), Stored(set.val[i].v))
         IN  IF one.ok THEN SetFrom(one.doc, set, i + 1) ELSE [ok |-> FALSE, doc |-> doc]

\* two paths of one $set of which one is at or above the other
Conflicting(set) ==
    \E i, j \in 1..Len(set.val) :
        i # j /\ IsPrefix(SplitDots(set.val[i].k), SplitDots(set.val[j].k))

\* {$set: set} applied to doc: all of it or, when refused, none of it
ApplySet(doc, set) ==
    IF Conflicting(set) THEN [ok |-> FALSE, doc |-> doc] ELSE SetFrom(doc, set, 1)

\* the position of the first document matching {field: v}, 0 when none does
FirstMatch(tbl, field, v) ==
    IF \E i \in 1..Len(tbl) : Matches(tbl[i], field, v)
    THEN CHOOSE i \in 1..Len(tbl) :
             Matches(tbl[i], field, v) /\ \A j \in 1..(i - 1) : ~Matches(tbl[j], field, v)
    ELSE 0

WriteError == "WriteError"

\* findOneAndUpdate({id: id}, {$set: set}, {upsert: true}): one atomic call
FindOneAndUpdate(tbl, id, set) ==
    LET i == FirstMatch(tbl, KID, id)
        old == IF i = 0 THEN Obj(<<[k |-> KID, v |-> Stored(id)]>>) ELSE tbl[i]
        new == ApplySet(old, set)
    IN  IF ~new.ok THEN [table |-> tbl, err |-> WriteError, value |-> Undefined]
        ELSE [table |-> IF i = 0 THEN Append(tbl, new.doc) ELSE [tbl EXCEPT ![i] = new.doc],
              err |-> "", value |-> new.doc]

\* findOne({id: id})
FindOne(tbl, id) ==
    IF FirstMatch(tbl, KID, id) = 0 THEN NullV ELSE tbl[FirstMatch(tbl, KID, id)]

\* tbl without its i-th document
Without(tbl, i) == SubSeq(tbl, 1, i - 1) \o SubSeq(tbl, i + 1, Len(tbl))

\* a findOneAndDelete whose filter is lost: the first document goes
FindOneAndDeleteAny(tbl, id) ==
    IF tbl = <<>> THEN [table |-> tbl, value |-> NullV]
    ELSE [table |-> Tail(tbl), value |-> tbl[1]]

\* findOneAndDelete({id: id}): the first match goes, and only it
FindOneAndDelete(tbl, id) ==
    LET i == FirstMatch(tbl, KID, id)
    IN  IF i = 0 THEN [table |-> tbl, value |-> NullV]
        ELSE [table |-> Without(tbl, i), value |-> tbl[i]]

----------------------------------------------------------------------------
(* the zone store of getStorage *)

\* what the call that completed last was given, the collection it found, and what its
\* callback or promise got
NoCall ==
    [op |-> "none", data |-> Undefined, before |-> <<>>, err |-> "", result |-> Undefined,
     promise |-> "none", reason |-> "", thrown |-> ""]
Completed(op, data, before, err, result) ==
    [op |-> op, data |-> data, before |-> before, err |-> err, result |-> result,
     promise |-> "none", reason |-> "", thrown |-> ""]

Callers == {"c1", "c2"}
Idle == [state |-> "idle", data |-> Undefined, set |-> Undefined, order |-> 0, err |-> ""]
NoCalls == [c \in Callers |-> Idle]

\* the most documents a collection is let to hold
MaxDocs == 2

\* a save that replaces the document by data instead of setting its leaf paths
SaveSetWholesale(data) == data

\* the $set document save builds: toDot(data)
SaveSet(data) == toDot(data, Dot, Undefined).value

\* get(id, cb)
Get(id) ==
    /\ last' = Completed("get", id, table, "", FindOne(table, id))
    /\ UNCHANGED <<table, calls, now, arg, ret>>

\* save(data, cb)
Save(data) ==
    LET r == FindOneAndUpdate(table, Member(data, KID), SaveSet(data))
    IN  /\ Len(r.table) <= MaxDocs
        /\ table' = r.table
        /\ last' = Completed("save", data, table, r.err, r.value)
        /\ UNCHANGED <<calls, now, arg, ret>>

\* insert(data, cb)
Insert(data) ==
    /\ Len(table) < MaxDocs
    /\ table' = Append(table, data)
    /\ last' = Completed("insert", data, table, "", data)
    /\ UNCHANGED <<calls, now, arg, ret>>

\* an update that flattens its data as save does
UpdateSetFlattened(data) == toDot(data, Dot, Undefined).value

\* the $set document update builds: data itself
UpdateSet(data) == data

\* update(data, cb)
Update(data) ==
    LET r == FindOneAndUpdate(table, Member(data, KID), UpdateSet(data))
    IN  /\ Len(r.table) <= MaxDocs
        /\ table' = r.table
        /\ last' = Completed("update", data, table, r.err, r.value)
        /\ UNCHANGED <<calls, now, arg, ret>>

\* delete(id, cb)
Delete(id) ==
    LET r == FindOneAndDelete(table, id)
    IN  /\ table' = r.table
        /\ last' = Completed("delete", id, table, "", r.value)
        /\ UNCHANGED <<calls, now, arg, ret>>

Rec(id, rest) == Obj(<<[k |-> KID, v |-> id]>> \o rest)
Field(k, v) == [k |-> k, v |-> v]

ZoneIds == {Num(1), Num(2)}

\* the records passed to save and update
ZoneData ==
    {Rec(Num(1), <<Field(KA, Num(1)), Field(KB, Num(2))>>),
     Rec(Num(1), <<Field(KA, Num(2))>>),
     Rec(Num(1), <<Field(KA, Obj(<<Field(KA, Num(1)), Field(KB, Num(2))>>))>>),
     Rec(Num(1), <<Field(KA, Obj(<<Field(KA, Num(2))>>))>>),
     Rec(Num(1), <<Field(KA, Obj(<<>>))>>),
     Rec(Num(1), <<Field(KAB, Num(1))>>),
     Rec(Num(1), <<Field(KA, Obj(<<Field(KB, Num(1))>>)), Field(KAB, Num(2))>>),
     Rec(Num(2), <<Field(KB, Num(1))>>)}

\* the records passed to insert
ZoneInserts ==
    {Rec(Num(1), <<Field(KA, Num(1)), Field(KB, Num(2))>>),
     Rec(Num(1), <<Field(KA, NullV), Field(KB, Arr(<<Num(1)>>))>>)}

InitZone ==
    /\ table = <<>>
    /\ calls = NoCalls
    /\ last = NoCall
    /\ now = 0
    /\ arg = Undefined
    /\ ret = NotCalled

NextZone ==
    \/ \E id \in ZoneIds : Get(id)
    \/ \E d \in ZoneData : Save(d)
    \/ \E d \in ZoneInserts : Insert(d)
    \/ \E d \in ZoneData : Update(d)
    \/ \E id \in ZoneIds : Delete(id)

SpecZone == InitZone /\ [][NextZone]_vars

----------------------------------------------------------------------------
(* concurrent saves: each save is one call to the backing store, which applies the
   calls it holds one at a time, in any order *)

\* caller c calls save(data): the $set document is built and the call is handed over
SaveCall(c, data) ==
    /\ calls[c].state = "idle"
    /\ calls' = [calls EXCEPT ![c] =
                    [state |-> "pending", data |-> data, set |-> SaveSet(data),
                     order |-> 0, err |-> ""]]
    /\ UNCHANGED <<table, last, now, arg, ret>>

\* the backing store applies c's findOneAndUpdate and c's callback runs
BackingApply(c) ==
    LET r == FindOneAndUpdate(table, Member(calls[c].data, KID), calls[c].set)
    IN  /\ calls[c].state = "pending"
        /\ table' = r.table
        /\ calls' = [calls EXCEPT ![c].state = "done", ![c].err = r.err,
                        ![c].order = 1 + Cardinality({x \in Callers : calls[x].state = "done"})]
        /\ last' = Completed("save", calls[c].data, table, r.err, r.value)
        /\ UNCHANGED <<now, arg, ret>>

\* what the concurrent callers save, all under one id
ConcurrentData ==
    {Rec(Num(1), <<Field(KA, Num(1))>>),
     Rec(Num(1), <<Field(KA, Num(2))>>),
     Rec(Num(1), <<Field(KB, Num(2))>>),
     Rec(Num(1), <<Field(KA, Num(2)), Field(KB, Num(1))>>),
     Rec(Num(1), <<Field(KA, Obj(<<Field(KA, Num(1))>>))>>),
     Rec(Num(1), <<Field(KA, Obj(<<Field(KA, Num(2))>>))>>),
     Rec(Num(1), <<Field(KA, Obj(<<Field(KB, Num(2))>>))>>)}

\* what the collection holds when they start
ConcurrentStored ==
    {<<>>,
     <<Rec(Num(1), <<>>)>>,
     <<Rec(Num(1), <<Field(KA, Num(1)), Field(KB, Num(2))>>)>>,
     <<Rec(Num(1), <<Field(KA, Obj(<<Field(KA, Num(1)), Field(KB, Num(2))>>))>>)>>}

InitConcurrent ==
    /\ table \in ConcurrentStored
    /\ calls = NoCalls
    /\ last = NoCall
    /\ now = 0
    /\ arg = Undefined
    /\ ret = NotCalled

NextConcurrent ==
    \/ \E c \in Callers, d \in ConcurrentData : SaveCall(c, d)
    \/ \E c \in Callers : BackingApply(c)

SpecConcurrent == InitConcurrent /\ [][NextConcurrent]_vars

----------------------------------------------------------------------------
(* the history methods *)

Users == {Str(<<"U">>), Str(<<"V">>)}
Messages == {Str(<<"x">>)}

\* the most entries the history collection is let to hold, the last reading of the
\* clock, and the largest limit asked for
MaxEntries == 3
MaxTime == 2
MaxLimit == 2

FindError == "FindError"
InsertError == "InsertError"
LengthOfUndefined == "TypeError: Cannot read property 'length' of undefined"

Settled(op, data, before, err, result, promise, reason, thrown) ==
    [op |-> op, data |-> data, before |-> before, err |-> err, result |-> result,
     promise |-> promise, reason |-> reason, thrown |-> thrown]

\* var hist = {userId: user, message: message, date: Date.now()}
Hist(message, user) ==
    Obj(<<Field(KUserId, user), Field(KMessage, message), Field(KDate, Num(now))>>)

\* the clock moves on
Tick ==
    /\ now < MaxTime
    /\ now' = now + 1
    /\ UNCHANGED <<table, calls, last, arg, ret>>

\* addToHistory(message, user), the insert succeeding: resolve(hist)
AddToHistory(message, user) ==
    /\ Len(table) < MaxEntries
    /\ table' = Append(table, Hist(message, user))
    /\ last' = Settled("addToHistory", Arr(<<message, user>>), table, "",
                       Hist(message, user), "resolved", "", "")
    /\ UNCHANGED <<calls, now, arg, ret>>

\* addToHistory(message, user), the insert failing: reject(err)
AddToHistoryInsertFails(message, user) ==
    /\ last' = Settled("addToHistory", Arr(<<message, user>>), table, InsertError,
                       Undefined, "rejected", InsertError, "")
    /\ UNCHANGED <<table, calls, now, arg, ret>>

\* a reverse() that leaves the array as it is
ReverseNot(s) == s

\* history.reverse()
Reverse(s) == [i \in 1..Len(s) |-> s[Len(s) + 1 - i]]

\* the callback getHistoryForUser gives to find: it reads history.length first
FindCallback(err, history) ==
    IF history.kind \in {"undefined", "null"}
    THEN [promise |-> "pending", reason |-> "", result |-> Undefined,
          thrown |-> LengthOfUndefined]
    ELSE IF err # ""
    THEN [promise |-> "rejected", reason |-> err, result |-> Undefined, thrown |-> ""]
    ELSE [promise |-> "resolved", reason |-> "", result |-> Arr(Reverse(history.val)),
          thrown |-> ""]

Min(a, b) == IF a < b THEN a ELSE b

\* find({userId: user}, {limit: limit, sort: {date: -1}}): the matching documents by
\* descending date, equal dates in any order, cut to limit (0: not cut)
Find(tbl, user, limit) ==
    LET m == {i \in 1..Len(tbl) : Matches(tbl[i], KUserId, user)}
        n == Cardinality(m)
        sorted == {p \in [1..n -> m] :
                      /\ \A i, j \in 1..n : p[i] = p[j] => i = j
                      /\ \A i, j \in 1..n :
                             i < j => Member(tbl[p[i]], KDate).val >= Member(tbl[p[j]], KDate).val}
        k == IF limit = 0 THEN n ELSE Min(limit, n)
    IN  {Arr([i \in 1..k |-> tbl[p[i]]]) : p \in sorted}

\* getHistoryForUser(user, limit), the find succeeding
GetHistoryForUser(user, limit) ==
    \E history \in Find(table, user, limit) :
        LET cb == FindCallback("", history)
        IN  /\ last' = Settled("getHistoryForUser", Arr(<<user, Num(limit)>>), table, "",
                               cb.result, cb.promise, cb.reason, cb.thrown)
            /\ UNCHANGED <<table, calls, now, arg, ret>>

\* getHistoryForUser(user, limit), the find failing: the callback gets the error alone
GetHistoryForUserFindFails(user, limit) ==
    LET cb == FindCallback(FindError, Undefined)
    IN  /\ last' = Settled("getHistoryForUser", Arr(<<user, Num(limit)>>), table, FindError,
                           cb.result, cb.promise, cb.reason, cb.thrown)
        /\ UNCHANGED <<table, calls, now, arg, ret>>

InitHistory ==
    /\ table = <<>>
    /\ calls = NoCalls
    /\ last = NoCall
    /\ now = 0
    /\ arg = Undefined
    /\ ret = NotCalled

NextHistory ==
    \/ Tick
    \/ \E m \in Messages, u \in Users : AddToHistory(m, u)
    \/ \E m \in Messages, u \in Users : AddToHistoryInsertFails(m, u)
    \/ \E u \in Users, n \in 0..MaxLimit : GetHistoryForUser(u, n)
    \/ \E u \in Users, n \in 0..MaxLimit : GetHistoryForUserFindFails(u, n)

SpecHistory == InitHistory /\ [][NextHistory]_vars

\* what save, update and insert are given on the history zone, and the ids given to
\* delete: a record may carry a null id or none
HistoryZoneData ==
    {Rec(Num(1), <<Field(KMessage, Str(<<"y">>))>>),
     Rec(NullV, <<Field(KMessage, Str(<<"y">>))>>),
     Obj(<<Field(KUserId, Str(<<"U">>)), Field(KMessage, Str(<<"y">>))>>)}
HistoryZoneIds == {Num(1), NullV, Undefined}

NextHistoryZone ==
    \/ \E m \in Messages, u \in Users : AddToHistory(m, u)
    \/ \E u \in Users, n \in 0..MaxLimit : GetHistoryForUser(u, n)
    \/ \E id \in HistoryZoneIds : Get(id)
    \/ \E d \in HistoryZoneData : Save(d)
    \/ \E d \in HistoryZoneData : Insert(d)
    \/ \E d \in HistoryZoneData : Update(d)
    \/ \E id \in HistoryZoneIds : Delete(id)

SpecHistoryZone == InitHistory /\ [][NextHistoryZone]_vars

----------------------------------------------------------------------------
(* the inputs of the toDot calls checked *)

Entries(K, V) == {[k |-> k, v |-> v] : k \in K, v \in V}

\* the objects over K and V with no entry, one entry, or two entries of different names
Objs1(K, V) == {Obj(<<>>)} \cup {Obj(<<e>>) : e \in Entries(K, V)}
Objs2(K, V) ==
    Objs1(K, V) \cup
    {Obj(<<e[1], e[2]>>) : e \in {p \in Entries(K, V) \X Entries(K, V) : p[1].k # p[2].k}}

LeafVals == {Num(1), Num(2), NullV, Arr(<<Num(1), Num(2)>>), DateV}

FlattenKeys == {KA, KB, KAB}

NonMappings ==
    {Num(5), Str(<<"s">>), Undefined, NullV, DateV, Arr(<<>>), Arr(<<Num(1), Num(2)>>),
     Arr(<<Obj(<<[k |-> KA, v |-> Num(1)]>>)>>)}

Mappings ==
    Objs2(FlattenKeys, LeafVals \cup Objs2({KA, KB}, {Num(1), Num(2)}))
    \cup Objs1({KA}, Objs1({KB}, Objs2(FlattenKeys, {Num(1), NullV})))

FlattenInputs == NonMappings \cup Mappings

InitFlatten ==
    /\ arg \in FlattenInputs
    /\ ret = NotCalled
    /\ table = <<>>
    /\ calls = NoCalls
    /\ last = NoCall
    /\ now = 0

\* toDot(arg)
CallToDot ==
    /\ ret.status = "none"
    /\ ret' = toDot(arg, Dot, Undefined)
    /\ UNCHANGED <<table, calls, last, now, arg>>

NextFlatten == CallToDot

SpecFlatten == InitFlatten /\ [][NextFlatten]_vars

----------------------------------------------------------------------------
(* what the claims about toDot speak of *)

RECURSIVE LeafSeqFrom(_, _, _)

\* the leaves of a plain object in traversal order, each with the names leading to it;
\* a leaf is any value that is not a plain object
LeafSeqFrom(obj, path, i) ==
    IF i > Len(obj.val) THEN <<>>
    ELSE (IF IsPlainObject(obj.val[i].v)
          THEN LeafSeqFrom(obj.val[i].v, Append(path, obj.val[i].k), 1)
          ELSE <<[path |-> Append(path, obj.val[i].k), val |-> obj.val[i].v]>>)
         \o LeafSeqFrom(obj, path, i + 1)

LeafSeq(obj) == LeafSeqFrom(obj, <<>>, 1)

RECURSIVE Join(_, _)
\* path.join(div)
Join(path, div) ==
    IF Len(path) = 0 THEN <<>>
    ELSE IF Len(path) = 1 THEN path[1]
    ELSE path[1] \o div \o Join(Tail(path), div)

RECURSIVE HasDottedName(_)
\* some property name of obj, at any depth, contains the separator
HasDottedName(obj) ==
    \E i \in 1..Len(obj.val) :
        \/ \E j \in 1..Len(obj.val[i].k) : <<obj.val[i].k[j]>> = Dot
        \/ IsPlainObject(obj.val[i].v) /\ HasDottedName(obj.val[i].v)

FlattenedMapping == arg.kind = "object" /\ ret.status # "none"

\* C7: toDot throws 'toDot requires a valid object' for every input that is not a
\* mapping (a primitive, an array, null) and returns a mapping only for a mapping.
C7_RejectsEveryNonMapping ==
    /\ (ret.status # "none" /\ arg.kind \in {"number", "string", "undefined", "array", "null"})
          => (ret.status = "threw" /\ ret.error = InvalidArgument)
    /\ ret.status = "returned" => arg.kind \in {"object", "date"}

\* C9 as stated: for every mapping input the result is a single-level mapping with no
\* plain-object value and exactly one key per leaf of the input, the key being the
\* separator-joined path of the leaf and the value the leaf.
C9_OneKeyPerLeaf ==
    FlattenedMapping =>
        /\ ret.status = "returned"
        /\ \A i \in 1..Len(ret.value.val) : ~IsPlainObject(ret.value.val[i].v)
        /\ Len(ret.value.val) = Len(LeafSeq(arg))
        /\ \A i \in 1..Len(LeafSeq(arg)) :
               Member(ret.value, Join(LeafSeq(arg)[i].path, Dot)) = LeafSeq(arg)[i].val

\* C9 amended: the result is a single-level mapping with no plain-object value and
\* exactly one key per distinct joined leaf path, holding the last leaf (in traversal
\* order) that joins to it; when no property name contains the separator that is
\* exactly one key per leaf, each holding its leaf.
C9_OneKeyPerJoinedPath ==
    FlattenedMapping =>
        LET leaves == LeafSeq(arg)
            keyOf(i) == Join(leaves[i].path, Dot)
        IN  /\ ret.status = "returned"
            /\ \A i \in 1..Len(ret.value.val) : ~IsPlainObject(ret.value.val[i].v)
            /\ {ret.value.val[i].k : i \in 1..Len(ret.value.val)}
                   = {keyOf(i) : i \in 1..Len(leaves)}
            /\ \A i, j \in 1..Len(ret.value.val) :
                   ret.value.val[i].k = ret.value.val[j].k => i = j
            /\ \A i \in 1..Len(leaves) :
                   (\A j \in (i + 1)..Len(leaves) : keyOf(j) # keyOf(i))
                       => Member(ret.value, keyOf(i)) = leaves[i].val
            /\ ~HasDottedName(arg) => C9_OneKeyPerLeaf

\* a mapping with a nested mapping of two leaves and a leaf beside it was flattened
C9_Witness ==
    /\ FlattenedMapping
    /\ ret.status = "returned"
    /\ Len(LeafSeq(arg)) = 3
    /\ \E i \in 1..3 : Len(LeafSeq(arg)[i].path) = 2
    /\ Len(ret.value.val) = 3

----------------------------------------------------------------------------
(* what the claims about the zone store speak of *)

RECURSIVE GetPath(_, _)
\* the value a document holds at a path of names, Undefined when it holds none
GetPath(doc, segs) ==
    IF Len(segs) = 0 THEN doc
    ELSE IF doc.kind # "object" THEN Undefined
    ELSE GetPath(Member(doc, segs[1]), Tail(segs))

RECURSIVE AllPaths(_)
\* the paths of all fields of a document, nested ones included
AllPaths(doc) ==
    IF doc.kind # "object" THEN {}
    ELSE UNION {{<<doc.val[i].k>>} \cup {<<doc.val[i].k>> \o p : p \in AllPaths(doc.val[i].v)}
                : i \in 1..Len(doc.val)}

\* the leaf paths of a record as the backing store reads them
LeafPaths(d) == {SplitDots(Join(LeafSeq(d)[i].path, Dot)) : i \in 1..Len(LeafSeq(d))}

\* a path at, above or below a leaf path of d
OnLeafPath(p, d) == \E q \in LeafPaths(d) : IsPrefix(q, p) \/ IsPrefix(p, q)

\* no two leaves of d join to the same path, and no leaf path runs through another
DistinctLeafPaths(d) ==
    /\ Cardinality(LeafPaths(d)) = Len(LeafSeq(d))
    /\ \A p, q \in LeafPaths(d) : IsPrefix(p, q) => p = q

\* some leaf path of d runs through a field of r that holds a value that is no mapping
RunsThroughLeaf(d, r) ==
    \E q \in LeafPaths(d) : \E n \in 1..(Len(q) - 1) :
        GetPath(r, SubSeq(q, 1, n)).kind \notin {"object", "undefined"}

\* the place in last.before of the record the call was keyed on, 0 when there is none
KeyedAt == FirstMatch(last.before, KID, Member(last.data, KID))

\* the stored record holds d's value at every leaf path of d, and every field of r
\* that is not on a leaf path of d is as it was
LeavesSetSiblingsKept(d, r, s) ==
    /\ \A i \in 1..Len(LeafSeq(d)) :
           GetPath(s, SplitDots(Join(LeafSeq(d)[i].path, Dot))) = LeafSeq(d)[i].val
    /\ \A p \in AllPaths(r) : ~OnLeafPath(p, d) => GetPath(s, p) = GetPath(r, p)

TopLevelReplaced(d, r, s) ==
    /\ \A i \in 1..Len(d.val) : Member(s, d.val[i].k) = d.val[i].v
    /\ \A i \in 1..Len(r.val) : ~Has(d, r.val[i].k) => Member(s, r.val[i].k) = r.val[i].v

\* C3 as stated: for any stored record R and any record D of the same id, after
\* update(D) every top-level field named in D is D's value exactly and the top-level
\* fields of R that D does not name are unchanged.
C3_UpdateReplacesWholesale ==
    (last.op = "update" /\ KeyedAt # 0) =>
        TopLevelReplaced(last.data, last.before[KeyedAt], table[KeyedAt])

\* the nested keys of r that d's mapping under the same name omits
OmittedNested(d, r) ==
    {p \in AllPaths(r) :
        /\ Len(p) = 2
        /\ Member(d, p[1]).kind = "object"
        /\ ~Has(Member(d, p[1]), p[2])}

\* C3 amended: that holds for every D none of whose names contains the separator
\* (update is then always accepted): the nested keys of R that D's value omits are
\* lost, while save of the same D, where accepted, keeps them.
C3_PlainUpdateReplacesWholesale ==
    (last.op = "update" /\ KeyedAt # 0 /\ ~HasDottedName(last.data)) =>
        LET r == last.before[KeyedAt]
            saved == FindOneAndUpdate(last.before, Member(last.data, KID), SaveSet(last.data))
        IN  /\ last.err = ""
            /\ TopLevelReplaced(last.data, r, table[KeyedAt])
            /\ \A p \in OmittedNested(last.data, r) :
                   /\ GetPath(table[KeyedAt], p) = Undefined
                   /\ saved.err = "" => GetPath(saved.table[KeyedAt], p) = GetPath(r, p)

\* an update has replaced a nested mapping by one that omits a key it held
C3_Witness ==
    /\ last.op = "update" /\ last.err = "" /\ KeyedAt # 0
    /\ ~HasDottedName(last.data)
    /\ OmittedNested(last.data, last.before[KeyedAt]) # {}
    /\ \E p \in OmittedNested(last.data, last.before[KeyedAt]) :
           Member(last.data, p[1]).val # <<>>

\* C4: at most one stored record has any given id.
C4_IdUnique ==
    \A i, j \in 1..Len(table) :
        Member(table[i], KID) = Member(table[j], KID) => i = j

\* C6: a get(id) that follows a successful delete(id) directly gets null.
C6_DeleteThenGet ==
    [][(/\ last.op = "delete" /\ last.err = ""
        /\ last'.op = "get" /\ last'.data = last.data)
           => last'.result = NullV]_vars

----------------------------------------------------------------------------
(* what the claims about concurrent saves speak of *)

Done(c) == calls[c].state = "done"
Accepted(c) == Done(c) /\ calls[c].err = ""

\* the value record d gives the leaf path p
LeafValue(d, p) ==
    LeafSeq(d)[CHOOSE i \in 1..Len(LeafSeq(d)) : SplitDots(Join(LeafSeq(d)[i].path, Dot)) = p].val

\* among the callers ws, the one whose call the backing store applied last
AppliedLast(ws) == CHOOSE x \in ws : \A y \in ws : calls[y].order <= calls[x].order

----------------------------------------------------------------------------
(* what the claims about the history methods speak of *)

DateOf(doc) == Member(doc, KDate).val

\* the entries were added at strictly increasing readings of the clock
StrictlyIncreasing(tbl) == \A i, j \in 1..Len(tbl) : i < j => DateOf(tbl[i]) < DateOf(tbl[j])

OfUser(tbl, user) == SelectSeq(tbl, LAMBDA doc : Member(doc, KUserId) = user)

\* the last n elements of s, all of them when it has fewer
LastN(s, n) == SubSeq(s, Len(s) - Min(n, Len(s)) + 1, Len(s))

\* C1: with entries added at strictly increasing timestamps, getHistoryForUser(U, N),
\* N >= 1, resolves with exactly the min(N, count) most recent entries of U, oldest
\* first, and no entry of another user.
C1_MostRecentAscending ==
    (/\ last.op = "getHistoryForUser" /\ last.err = ""
     /\ last.data.val[2].val >= 1
     /\ StrictlyIncreasing(last.before)) =>
        /\ last.promise = "resolved"
        /\ last.result = Arr(LastN(OfUser(last.before, last.data.val[1]), last.data.val[2].val))

\* three entries of one user at increasing dates, the limit 2: the two latest came back,
\* the older of them first
C1_Witness ==
    /\ last.op = "getHistoryForUser" /\ last.promise = "resolved"
    /\ StrictlyIncreasing(last.before)
    /\ Len(last.before) = 3
    /\ Len(OfUser(last.before, last.data.val[1])) = 3
    /\ last.data.val[2] = Num(2)
    /\ last.result = Arr(<<last.before[2], last.before[3]>>)

\* C8: when find fails, the promise of getHistoryForUser is rejected with that error
\* and nothing else is raised.
C8_RejectsWithBackingError ==
    (last.op = "getHistoryForUser" /\ last.err # "") =>
        /\ last.promise = "rejected"
        /\ last.reason = last.err
        /\ last.thrown = ""

\* a history entry: what addToHistory inserts, a document with no id
IsHistoryEntry(doc) ==
    /\ Member(doc, KID) = Undefined
    /\ Has(doc, KUserId) /\ Has(doc, KMessage) /\ Has(doc, KDate)

HistoryEntries(tbl) == SelectSeq(tbl, IsHistoryEntry)

\* the id the last call was keyed on
CallId == IF last.op \in {"get", "delete"} THEN last.data ELSE Member(last.data, KID)

KeyedOnNoId ==
    last.op \in {"save", "update", "delete"} /\ CallId.kind \in {"null", "undefined"}

====
